---- MODULE Spec2Model ----
(***************************************************************************)
(* Model of custom_components/emby_upcoming_media/client.py: the EmbyClient *)
(* artwork cache.  The client builds the remote image URL, derives a cache  *)
(* filename from (itemId, imageType), starts a background download thread   *)
(* on a cache miss, and sweeps expired '.jpg' files once at construction.   *)
(*                                                                         *)
(* Strings are TLA+ strings; the Python string operations the code uses     *)
(* (format, endswith, in, split, os.path.join) are computed character by    *)
(* character with SubSeq.  Time is in whole seconds.                        *)
(***************************************************************************)
EXTENDS Integers, Sequences, FiniteSets, TLC

(***************************************************************************)
(* Bounds of the model.                                                    *)
(***************************************************************************)
MaxCalls == 2          \* get_image_url calls explored
BodyChunks == 2        \* 1024-byte chunks in one image body
MaxTicks == 1          \* clock advances explored
MaxMetaCalls == 3      \* get_view_categories / get_data calls explored
MaxResp == 2           \* items in one server response

(***************************************************************************)
(* Inputs: the configurations and requests the model explores.             *)
(***************************************************************************)
SecondsPerDay == 86400
Now0 == 100 * SecondsPerDay
TickSeconds == 25 * SecondsPerDay
host == "emby.lan"
port == 8096
api_key == "KEY"
ImgDirChoices == {"", "/config/www/emby_images", "/data/emby_images"}
SslChoices == BOOLEAN
CacheDaysChoices == {30}
Pairs == {<<"42", "Primary">>, <<"7", "Primary">>}
\* string pairs beyond the ids and image types an Emby server uses
AnyPairs == {<<"42", "Primary">>, <<"1_2", "Primary">>,
             <<"1_2", "3">>, <<"1", "2_3">>}
StatusCodes == {200, 404}
MaxItemsChoices == {1, 2}
CategoryIds == {"3", "5"}
CategoryLists == {<<"3">>, <<"3", "5">>}
ItemIds == {"42", "7"}
Responses == UNION {[1..n -> ItemIds] : n \in 0..MaxResp}

VARIABLES
    ssl,            \* self.ssl: "s" or ""
    img_dir,        \* self.img_dir: "" when caching is disabled
    img_cache_days, \* self.img_cache_days
    pc,             \* "new" before __init__ has run, "ready" after
    now,            \* time.time()
    dirs,           \* directories that exist
    fs,             \* files that exist: path -> [mtime, content, locked]
    tasks,          \* download threads, in start order
    nCalls,         \* get_image_url calls made
    lastCall,       \* the latest get_image_url call and its return value
    fetches,        \* HTTP GETs issued for images
    max_items,      \* self.max_items
    data,           \* self.data: key -> last snapshot
    _state,         \* self._state, Unset until first assigned
    nMeta,          \* get_view_categories / get_data calls made
    lastMeta        \* the latest such call and how it ended

vars == <<ssl, img_dir, img_cache_days, pc, now, dirs, fs, tasks, nCalls,
          lastCall, fetches, max_items, data, _state, nMeta, lastMeta>>

config == <<ssl, img_dir, img_cache_days>>

meta == <<max_items, data, _state, nMeta, lastMeta>>

cache == <<now, dirs, fs, tasks, nCalls, lastCall, fetches>>

(***************************************************************************)
(* Python string operations.                                               *)
(***************************************************************************)
Digit(d) == SubSeq("0123456789", d + 1, d + 1)

RECURSIVE IntToStr(_)
IntToStr(n) == IF n < 10 THEN Digit(n)
               ELSE IntToStr(n \div 10) \o Digit(n % 10)

StartsWith(s, p) == Len(p) <= Len(s) /\ SubSeq(s, 1, Len(p)) = p

EndsWith(s, suf) ==
    Len(suf) <= Len(s) /\ SubSeq(s, Len(s) - Len(suf) + 1, Len(s)) = suf

\* index of the first occurrence of sub in s at or after position i, 0 if none
RECURSIVE Find(_, _, _)
Find(s, sub, i) ==
    IF i + Len(sub) - 1 > Len(s) THEN 0
    ELSE IF SubSeq(s, i, i + Len(sub) - 1) = sub THEN i
    ELSE Find(s, sub, i + 1)

Contains(s, sub) == Find(s, sub, 1) # 0

\* s.split(sep)[-1]
RECURSIVE SplitLast(_, _)
SplitLast(s, sep) ==
    LET i == Find(s, sep, 1)
    IN IF i = 0 THEN s
       ELSE SplitLast(SubSeq(s, i + Len(sep), Len(s)), sep)

\* os.path.join(d, name)
Join(d, name) ==
    IF StartsWith(name, "/") THEN name
    ELSE IF d = "" \/ EndsWith(d, "/") THEN d \o name
    ELSE d \o "/" \o name

\* hashlib.md5(base.encode()).hexdigest()[:8], tabulated for the bases used
Md5Hex8(base) ==
    CASE base = "42_Primary" -> "7ab37ce5"
      [] base = "42_Backdrop" -> "6236f4a6"
      [] base = "7_Primary" -> "f8338f54"
      [] base = "7_Backdrop" -> "b33f8697"
      [] base = "1_2_Primary" -> "ab4c5fab"
      [] base = "1_2_3" -> "c9b3156d"
      [] OTHER -> "00000000"

(***************************************************************************)
(* The pure parts of get_image_url.                                        *)
(***************************************************************************)
SslStr(b) == IF b THEN "s" ELSE ""

EmbyUrl(itemId, imageType) ==
    "http" \o ssl \o "://" \o host \o ":" \o IntToStr(port) \o "/Items/"
    \o itemId \o "/Images/" \o imageType
    \o "?maxHeight=360&maxWidth=640&quality=90&api_key=" \o api_key

\* a filename that leaves the image type out
FileNameNoType(itemId, imageType) ==
    itemId \o "_" \o Md5Hex8(itemId) \o ".jpg"

\* a filename that also depends on when it is computed
FileNamePerCall(itemId, imageType) ==
    LET filename_base == itemId \o "_" \o imageType
    IN filename_base \o "_" \o "0000000" \o IntToStr(nCalls) \o ".jpg"

FileName(itemId, imageType) ==
    LET filename_base == itemId \o "_" \o imageType
    IN filename_base \o "_" \o Md5Hex8(filename_base) \o ".jpg"

\* the local path built from the part before the marker: split(...)[0]
LocalUrlFirstPart(itemId, imageType) ==
    IF Contains(img_dir, "/www/")
    THEN "/local/" \o SubSeq(img_dir, 1, Find(img_dir, "/www/", 1) - 1) \o "/"
         \o FileName(itemId, imageType)
    ELSE EmbyUrl(itemId, imageType)

LocalUrl(itemId, imageType) ==
    IF Contains(img_dir, "/www/")
    THEN "/local/" \o SplitLast(img_dir, "/www/") \o "/"
         \o FileName(itemId, imageType)
    ELSE EmbyUrl(itemId, imageType)

(***************************************************************************)
(* The filesystem.  A file is [mtime, content, locked]: content is the set *)
(* of body chunks written so far; on a locked file os.remove (or            *)
(* os.path.getmtime) raises.                                               *)
(***************************************************************************)
FullBody == 1..BodyChunks

Exists(path) == path \in DOMAIN fs

File(mtime, content, locked) ==
    [mtime |-> mtime, content |-> content, locked |-> locked]

\* f with path p set to file r / with path p removed
Put(f, p, r) == [q \in DOMAIN f \cup {p} |-> IF q = p THEN r ELSE f[q]]
Remove(f, p) == [q \in DOMAIN f \ {p} |-> f[q]]

\* index of the last "/" of path, 0 if none
RECURSIVE LastSlash(_, _)
LastSlash(path, i) ==
    IF i = 0 THEN 0
    ELSE IF SubSeq(path, i, i) = "/" THEN i
    ELSE LastSlash(path, i - 1)

DirName(path) == SubSeq(path, 1, LastSlash(path, Len(path)) - 1)
BaseName(path) == SubSeq(path, LastSlash(path, Len(path)) + 1, Len(path))

\* os.listdir(d)
ListDir(f, d) == {BaseName(p) : p \in {q \in DOMAIN f : DirName(q) = d}}

(***************************************************************************)
(* cleanup_old_images: the loop over os.listdir, one file per iteration.   *)
(***************************************************************************)
CutoffTime == now - (img_cache_days * SecondsPerDay)

\* the age test with <= in place of <
CleanupOneInclusive(f, filename) ==
    LET filepath == Join(img_dir, filename)
    IN IF ~EndsWith(filename, ".jpg") THEN f
       ELSE IF f[filepath].mtime <= CutoffTime
            THEN IF f[filepath].locked THEN f ELSE Remove(f, filepath)
            ELSE f

\* one iteration of the loop body on entry `filename`
CleanupOne(f, filename) ==
    LET filepath == Join(img_dir, filename)
    IN IF ~EndsWith(filename, ".jpg") THEN f
       ELSE IF f[filepath].mtime < CutoffTime
            THEN IF f[filepath].locked
                 THEN f                       \* raised: logged, skipped
                 ELSE Remove(f, filepath)
            ELSE f

\* a loop that a failing file ends: no try/except around the loop body
RECURSIVE CleanupLoopAbort(_, _)
CleanupLoopAbort(f, names) ==
    IF names = {} THEN f
    ELSE LET filename == CHOOSE n \in names : TRUE
             filepath == Join(img_dir, filename)
         IN IF /\ EndsWith(filename, ".jpg")
               /\ f[filepath].mtime < CutoffTime
               /\ f[filepath].locked
            THEN f
            ELSE CleanupLoopAbort(CleanupOne(f, filename), names \ {filename})

RECURSIVE CleanupLoop(_, _)
CleanupLoop(f, names) ==
    IF names = {} THEN f
    ELSE LET filename == CHOOSE n \in names : TRUE
         IN CleanupLoop(CleanupOne(f, filename), names \ {filename})

cleanup_old_images(f, d) ==
    IF img_dir = "" \/ img_dir \notin d THEN f
    ELSE CleanupLoop(f, ListDir(f, img_dir))

(***************************************************************************)
(* Initial states: the client is not yet constructed; the directory the    *)
(* cache would use may be missing, or hold files of several ages.          *)
(***************************************************************************)
WorldDir(d) == IF d = "" THEN "/config/www/emby_images" ELSE d

InitAges == {40 * SecondsPerDay, 30 * SecondsPerDay, 10 * SecondsPerDay}

\* what may be found under a name before construction: nothing, or a file
InitFileChoices(name) ==
    {<<>>} \cup
    IF EndsWith(name, ".jpg")
    THEN {<<File(Now0 - a, FullBody, l)>> : a \in InitAges, l \in BOOLEAN}
         \ {<<File(Now0 - 10 * SecondsPerDay, FullBody, TRUE)>>,
            <<File(Now0 - 30 * SecondsPerDay, FullBody, TRUE)>>}
    ELSE {<<File(Now0 - 40 * SecondsPerDay, FullBody, FALSE)>>}

InitJpg == FileName("42", "Primary")
InitOther == "notes.txt"

InitFs(d, j, o) ==
    LET pj == Join(d, InitJpg)
        po == Join(d, InitOther)
        present == (IF j = <<>> THEN {} ELSE {pj})
                   \cup (IF o = <<>> THEN {} ELSE {po})
    IN [p \in present |-> IF p = pj THEN j[1] ELSE o[1]]

NoCall == [itemId |-> "", imageType |-> "", ret |-> ""]

Unset == "<unset>"

\* a call record: ret is <<>> for None and <<v>> for the value v
NoMeta == [op |-> "", arg |-> "", status |-> 0, response |-> <<>>,
           raised |-> FALSE, ret |-> <<>>]

\* the catalog side of a client on which no call has been made
MetaStart(m) ==
    /\ max_items = m
    /\ data = <<>>
    /\ _state = Unset
    /\ nMeta = 0
    /\ lastMeta = NoMeta

Init ==
    /\ \E b \in SslChoices : ssl = SslStr(b)
    /\ img_dir \in ImgDirChoices
    /\ img_cache_days \in CacheDaysChoices
    /\ pc = "new"
    /\ now = Now0
    /\ nCalls = 0
    /\ \/ dirs = {} /\ fs = <<>>
       \/ /\ dirs = {WorldDir(img_dir)}
          /\ \E j \in InitFileChoices(InitJpg), o \in InitFileChoices(InitOther) :
                fs = InitFs(WorldDir(img_dir), j, o)
    /\ tasks = <<>>
    /\ lastCall = NoCall
    /\ fetches = 0
    /\ MetaStart(2)

(***************************************************************************)
(* __init__: create the image directory and sweep it, when one is set.     *)
(***************************************************************************)
\* construction that creates the directory but does not sweep it
ConstructNoSweep ==
    /\ pc = "new"
    /\ pc' = "ready"
    /\ IF img_dir # ""
       THEN dirs' = dirs \cup {img_dir} /\ UNCHANGED fs
       ELSE UNCHANGED <<dirs, fs>>
    /\ UNCHANGED <<config, meta, now, tasks, nCalls, lastCall, fetches>>

Construct ==
    /\ pc = "new"
    /\ pc' = "ready"
    /\ IF img_dir # ""
       THEN /\ dirs' = dirs \cup {img_dir}
            /\ fs' = cleanup_old_images(fs, dirs \cup {img_dir})
       ELSE UNCHANGED <<dirs, fs>>
    /\ UNCHANGED <<config, meta, now, tasks, nCalls, lastCall, fetches>>

(***************************************************************************)
(* get_image_url(itemId, imageType).                                       *)
(***************************************************************************)
NewTask(url, filename) ==
    [url |-> url, filename |-> filename, pc |-> "get", status |-> 0,
     chunk |-> 0, opened |-> FALSE, err |-> "", result |-> FALSE]

\* get_image_url without the `if not self.img_dir` early return
GetImageUrlNoDisabledCheck(itemId, imageType) ==
    LET emby_url == EmbyUrl(itemId, imageType)
        filename == FileName(itemId, imageType)
        filepath == Join(img_dir, filename)
    IN /\ pc = "ready"
       /\ nCalls < MaxCalls
       /\ nCalls' = nCalls + 1
       /\ tasks' = IF ~Exists(filepath)
                   THEN Append(tasks, NewTask(emby_url, filename))
                   ELSE tasks
       /\ lastCall' = [itemId |-> itemId, imageType |-> imageType,
                       ret |-> LocalUrl(itemId, imageType)]
       /\ UNCHANGED <<config, meta, pc, now, dirs, fs, fetches>>

\* get_image_url without the os.path.exists test: every call downloads
GetImageUrlAlwaysSpawn(itemId, imageType) ==
    LET emby_url == EmbyUrl(itemId, imageType)
        filename == FileName(itemId, imageType)
    IN /\ pc = "ready"
       /\ nCalls < MaxCalls
       /\ nCalls' = nCalls + 1
       /\ IF img_dir = ""
          THEN /\ lastCall' = [itemId |-> itemId, imageType |-> imageType,
                               ret |-> emby_url]
               /\ UNCHANGED tasks
          ELSE /\ tasks' = Append(tasks, NewTask(emby_url, filename))
               /\ lastCall' = [itemId |-> itemId, imageType |-> imageType,
                               ret |-> LocalUrl(itemId, imageType)]
       /\ UNCHANGED <<config, meta, pc, now, dirs, fs, fetches>>

\* get_image_url that joins the download threads before it returns
GetImageUrlJoin(itemId, imageType) ==
    LET emby_url == EmbyUrl(itemId, imageType)
        filename == FileName(itemId, imageType)
        filepath == Join(img_dir, filename)
    IN /\ pc = "ready"
       /\ nCalls < MaxCalls
       /\ \A i \in 1..Len(tasks) : tasks[i].pc = "done"
       /\ nCalls' = nCalls + 1
       /\ IF img_dir = ""
          THEN /\ lastCall' = [itemId |-> itemId, imageType |-> imageType,
                               ret |-> emby_url]
               /\ UNCHANGED tasks
          ELSE /\ tasks' = IF ~Exists(filepath)
                           THEN Append(tasks, NewTask(emby_url, filename))
                           ELSE tasks
               /\ lastCall' = [itemId |-> itemId, imageType |-> imageType,
                               ret |-> LocalUrl(itemId, imageType)]
       /\ UNCHANGED <<config, meta, pc, now, dirs, fs, fetches>>

\* get_image_url that tests the marker before it looks for the file
GetImageUrlMarkerFirst(itemId, imageType) ==
    LET emby_url == EmbyUrl(itemId, imageType)
        filename == FileName(itemId, imageType)
        filepath == Join(img_dir, filename)
    IN /\ pc = "ready"
       /\ nCalls < MaxCalls
       /\ nCalls' = nCalls + 1
       /\ IF img_dir = "" \/ ~Contains(img_dir, "/www/")
          THEN /\ lastCall' = [itemId |-> itemId, imageType |-> imageType,
                               ret |-> emby_url]
               /\ UNCHANGED tasks
          ELSE /\ tasks' = IF ~Exists(filepath)
                           THEN Append(tasks, NewTask(emby_url, filename))
                           ELSE tasks
               /\ lastCall' = [itemId |-> itemId, imageType |-> imageType,
                               ret |-> LocalUrl(itemId, imageType)]
       /\ UNCHANGED <<config, meta, pc, now, dirs, fs, fetches>>

GetImageUrl(itemId, imageType) ==
    LET emby_url == EmbyUrl(itemId, imageType)
        filename == FileName(itemId, imageType)
        filepath == Join(img_dir, filename)
    IN /\ pc = "ready"
       /\ nCalls < MaxCalls
       /\ nCalls' = nCalls + 1
       /\ IF img_dir = ""
          THEN /\ lastCall' = [itemId |-> itemId, imageType |-> imageType,
                               ret |-> emby_url]
               /\ UNCHANGED tasks
          ELSE /\ tasks' = IF ~Exists(filepath)
                           THEN Append(tasks, NewTask(emby_url, filename))
                           ELSE tasks
               /\ lastCall' = [itemId |-> itemId, imageType |-> imageType,
                               ret |-> LocalUrl(itemId, imageType)]
       /\ UNCHANGED <<config, meta, pc, now, dirs, fs, fetches>>

(***************************************************************************)
(* download_image_sync(url, filename), one thread per task, step by step.  *)
(***************************************************************************)
\* an `except` that catches network errors only: file errors escape
FinishUncaught(t, ok, err) ==
    IF err \in {"open", "write"}
    THEN [t EXCEPT !.pc = "raised", !.err = err]
    ELSE [t EXCEPT !.pc = "done", !.result = ok, !.err = err]

Finish(t, ok, err) == [t EXCEPT !.pc = "done", !.result = ok, !.err = err]

TaskPath(i) == Join(img_dir, tasks[i].filename)

\* a GET that is tried a second time after a network error
TaskGetRetryOnce(i) ==
    /\ i \in 1..Len(tasks)
    /\ tasks[i].pc = "get"
    /\ fetches' = fetches + 1
    /\ \/ \E s \in StatusCodes :
            tasks' = [tasks EXCEPT ![i] =
                        IF s = 200
                        THEN [@ EXCEPT !.pc = "open", !.status = s]
                        ELSE Finish([@ EXCEPT !.status = s], FALSE, "status")]
       \/ tasks' = [tasks EXCEPT ![i] =
                      IF @.status = 0 THEN [@ EXCEPT !.status = -1]
                      ELSE Finish(@, FALSE, "network")]
    /\ UNCHANGED <<config, meta, pc, now, dirs, fs, nCalls, lastCall>>

\* requests.get(url, timeout=10, stream=True) and the status test
TaskGet(i) ==
    /\ i \in 1..Len(tasks)
    /\ tasks[i].pc = "get"
    /\ fetches' = fetches + 1
    /\ \/ \E s \in StatusCodes :
            tasks' = [tasks EXCEPT ![i] =
                        IF s = 200
                        THEN [@ EXCEPT !.pc = "open", !.status = s]
                        ELSE Finish([@ EXCEPT !.status = s], FALSE, "status")]
       \/ tasks' = [tasks EXCEPT ![i] = Finish(@, FALSE, "network")]
    /\ UNCHANGED <<config, meta, pc, now, dirs, fs, nCalls, lastCall>>

\* open(filepath, 'wb'): creates or truncates the file, or raises
TaskOpen(i) ==
    /\ i \in 1..Len(tasks)
    /\ tasks[i].pc = "open"
    /\ \/ /\ fs' = Put(fs, TaskPath(i), File(now, {}, FALSE))
          /\ tasks' = [tasks EXCEPT ![i] =
                         [@ EXCEPT !.pc = "write", !.opened = TRUE,
                                   !.chunk = 1]]
       \/ /\ tasks' = [tasks EXCEPT ![i] = Finish(@, FALSE, "open")]
          /\ UNCHANGED fs
    /\ UNCHANGED <<config, meta, pc, now, dirs, nCalls, lastCall, fetches>>

\* one iteration of `for chunk in response.iter_content(1024): f.write(chunk)`
TaskWrite(i) ==
    /\ i \in 1..Len(tasks)
    /\ tasks[i].pc = "write"
    /\ tasks[i].chunk <= BodyChunks
    /\ \/ /\ fs' = IF Exists(TaskPath(i))
                   THEN [fs EXCEPT ![TaskPath(i)] =
                           [@ EXCEPT !.mtime = now,
                                     !.content = @ \cup {tasks[i].chunk}]]
                   ELSE fs
          /\ tasks' = [tasks EXCEPT ![i] = [@ EXCEPT !.chunk = @ + 1]]
       \/ /\ \E e \in {"stream", "write"} :
                tasks' = [tasks EXCEPT ![i] = Finish(@, FALSE, e)]
          /\ UNCHANGED fs
    /\ UNCHANGED <<config, meta, pc, now, dirs, nCalls, lastCall, fetches>>

\* a download that removes its file when the body ends, and reports success
TaskFinishDiscard(i) ==
    /\ i \in 1..Len(tasks)
    /\ tasks[i].pc = "write"
    /\ tasks[i].chunk > BodyChunks
    /\ fs' = Remove(fs, TaskPath(i))
    /\ tasks' = [tasks EXCEPT ![i] = Finish(@, TRUE, "")]
    /\ UNCHANGED <<config, meta, pc, now, dirs, nCalls, lastCall, fetches>>

\* end of the body: the file is closed, then os.path.exists decides
TaskFinish(i) ==
    /\ i \in 1..Len(tasks)
    /\ tasks[i].pc = "write"
    /\ tasks[i].chunk > BodyChunks
    /\ tasks' = [tasks EXCEPT ![i] =
                   IF Exists(TaskPath(i)) THEN Finish(@, TRUE, "")
                   ELSE Finish(@, FALSE, "missing")]
    /\ UNCHANGED <<config, meta, pc, now, dirs, fs, nCalls, lastCall, fetches>>

TaskStep(i) == TaskGet(i) \/ TaskOpen(i) \/ TaskWrite(i) \/ TaskFinish(i)

(***************************************************************************)
(* The clock.                                                              *)
(***************************************************************************)
\* A step of the clock is weeks long, a download at most a few timeouts of
\* 10 seconds: the clock steps between downloads, not in the middle of one.
Tick ==
    /\ now < Now0 + MaxTicks * TickSeconds
    /\ \A i \in 1..Len(tasks) : tasks[i].pc = "done"
    /\ now' = now + TickSeconds
    /\ UNCHANGED <<config, meta, pc, dirs, fs, tasks, nCalls, lastCall, fetches>>

Next ==
    \/ Construct
    \/ \E p \in Pairs : GetImageUrl(p[1], p[2])
    \/ \E i \in 1..MaxCalls : TaskGet(i)
    \/ \E i \in 1..MaxCalls : TaskOpen(i)
    \/ \E i \in 1..MaxCalls : TaskWrite(i)
    \/ \E i \in 1..MaxCalls : TaskFinish(i)
    \/ Tick

Spec == Init /\ [][Next]_vars

\* threads are scheduled by the OS and every blocking call has timeout=10
LiveSpec == Spec /\ \A i \in 1..MaxCalls : WF_vars(TaskStep(i))

(***************************************************************************)
(* Construction over a directory that holds several images: any of three   *)
(* '.jpg' files, old or recent, removable or not, and a text file.          *)
(***************************************************************************)
SweepNames == {FileName("42", "Primary"), FileName("7", "Primary"),
               "cover.jpg", "notes.txt"}

SweepFileChoices(name) ==
    {<<>>} \cup
    IF EndsWith(name, ".jpg")
    THEN {<<File(Now0 - a * SecondsPerDay, FullBody, l)>> :
             a \in {40, 10}, l \in BOOLEAN}
    ELSE {<<File(Now0 - 40 * SecondsPerDay, FullBody, FALSE)>>}

SweepInit ==
    /\ ssl = "" /\ img_dir = "/config/www/emby_images" /\ img_cache_days = 30
    /\ pc = "new"
    /\ now = Now0 /\ dirs = {img_dir}
    /\ \E c \in [SweepNames -> UNION {SweepFileChoices(n) : n \in SweepNames}] :
          /\ \A n \in SweepNames : c[n] \in SweepFileChoices(n)
          /\ fs = [q \in {Join(img_dir, n) : n \in {m \in SweepNames : c[m] # <<>>}}
                     |-> c[BaseName(q)][1]]
    /\ tasks = <<>> /\ nCalls = 0 /\ lastCall = NoCall /\ fetches = 0
    /\ MetaStart(2)

SweepSpec == SweepInit /\ [][Construct]_vars

(***************************************************************************)
(* The cache of a constructed client with an empty cache directory, called *)
(* with arbitrary id and type strings.                                     *)
(***************************************************************************)
AnyIdsInit ==
    /\ ssl = "" /\ img_dir = "/config/www/emby_images" /\ img_cache_days = 30
    /\ pc = "ready"
    /\ now = Now0 /\ dirs = {"/config/www/emby_images"} /\ fs = <<>>
    /\ tasks = <<>> /\ nCalls = 0 /\ lastCall = NoCall /\ fetches = 0
    /\ MetaStart(2)

AnyIdsNext ==
    \/ \E p \in AnyPairs : GetImageUrl(p[1], p[2])
    \/ \E i \in 1..MaxCalls : TaskGet(i)
    \/ \E i \in 1..MaxCalls : TaskOpen(i)
    \/ \E i \in 1..MaxCalls : TaskWrite(i)
    \/ \E i \in 1..MaxCalls : TaskFinish(i)

AnyIdsSpec == AnyIdsInit /\ [][AnyIdsNext]_vars

(***************************************************************************)
(* get_view_categories and get_data.  The server's answer is the input:    *)
(* status 0 stands for requests.get raising OSError.                       *)
(***************************************************************************)
Unreachable == host \o " cannot be reached"

\* a slice that keeps one element too many
SliceInclusive(seq, n) ==
    SubSeq(seq, 1, IF n + 1 < Len(seq) THEN n + 1 ELSE Len(seq))

\* seq[:n] for n >= 0
Slice(seq, n) == SubSeq(seq, 1, IF n < Len(seq) THEN n ELSE Len(seq))

MetaCall(op, arg, status, response, raised, ret) ==
    [op |-> op, arg |-> arg, status |-> status, response |-> response,
     raised |-> raised, ret |-> ret]

\* get_view_categories whose `except OSError` branch lacks the return
GetViewCategoriesNoReturn(status, items) ==
    /\ pc = "ready"
    /\ nMeta < MaxMetaCalls
    /\ nMeta' = nMeta + 1
    /\ IF status = 200
       THEN data' = Put(data, "ViewCategories", items) /\ UNCHANGED _state
       ELSE _state' = Unreachable /\ UNCHANGED data
    /\ lastMeta' =
         IF "ViewCategories" \in DOMAIN data'
         THEN MetaCall("get_view_categories", "", status,
                       IF status = 200 THEN items ELSE <<>>,
                       FALSE, <<data'["ViewCategories"]>>)
         ELSE MetaCall("get_view_categories", "", status, <<>>, TRUE, <<>>)
    /\ UNCHANGED <<config, cache, pc, max_items>>

GetViewCategories(status, items) ==
    /\ pc = "ready"
    /\ nMeta < MaxMetaCalls
    /\ nMeta' = nMeta + 1
    /\ IF status = 0
       THEN /\ _state' = Unreachable
            /\ lastMeta' = MetaCall("get_view_categories", "", status, <<>>,
                                    FALSE, <<>>)
            /\ UNCHANGED data
       ELSE /\ IF status = 200
               THEN data' = Put(data, "ViewCategories", items) /\ UNCHANGED _state
               ELSE _state' = Unreachable /\ UNCHANGED data
            \* return self.data["ViewCategories"]: KeyError when never stored
            /\ lastMeta' =
                 IF "ViewCategories" \in DOMAIN data'
                 THEN MetaCall("get_view_categories", "", status,
                               IF status = 200 THEN items ELSE <<>>,
                               FALSE, <<data'["ViewCategories"]>>)
                 ELSE MetaCall("get_view_categories", "", status, <<>>,
                               TRUE, <<>>)
    /\ UNCHANGED <<config, cache, pc, max_items>>

GetData(categoryId, status, response) ==
    /\ pc = "ready"
    /\ nMeta < MaxMetaCalls
    /\ nMeta' = nMeta + 1
    /\ IF status = 0
       THEN /\ _state' = Unreachable
            /\ lastMeta' = MetaCall("get_data", categoryId, status, <<>>,
                                    FALSE, <<>>)
            /\ UNCHANGED data
       ELSE IF status = 200
       THEN /\ _state' = "Online"
            /\ data' = Put(data, categoryId, Slice(response, max_items))
            /\ lastMeta' = MetaCall("get_data", categoryId, status, response,
                                    FALSE, <<data'[categoryId]>>)
       ELSE /\ _state' = Unreachable
            /\ lastMeta' = MetaCall("get_data", categoryId, status, <<>>,
                                    FALSE, <<>>)
            /\ UNCHANGED data
    /\ UNCHANGED <<config, cache, pc, max_items>>

\* a constructed client without image cache, before its first catalog call
MetaInit ==
    /\ ssl = "" /\ img_dir = "" /\ img_cache_days = 30
    /\ pc = "ready"
    /\ now = Now0 /\ dirs = {} /\ fs = <<>>
    /\ tasks = <<>> /\ nCalls = 0 /\ lastCall = NoCall /\ fetches = 0
    /\ \E m \in MaxItemsChoices : MetaStart(m)

MetaNext ==
    \/ \E s \in StatusCodes \cup {0}, c \in CategoryLists :
          GetViewCategories(s, IF s = 200 THEN c ELSE <<>>)
    \/ \E c \in CategoryIds, s \in StatusCodes \cup {0}, r \in Responses :
          GetData(c, s, IF s = 200 THEN r ELSE <<>>)

MetaSpec == MetaInit /\ [][MetaNext]_vars

(***************************************************************************)
(* Properties.  The expected names and URLs are written out literally, so  *)
(* that they do not depend on the operators they are checked against.       *)
(***************************************************************************)
ExpectedName(itemId, imageType) ==
    CASE itemId = "42" /\ imageType = "Primary" -> "42_Primary_7ab37ce5.jpg"
      [] itemId = "7" /\ imageType = "Primary" -> "7_Primary_f8338f54.jpg"
      [] OTHER -> "?"

ExpectedUrl(itemId, imageType) ==
    (IF ssl = "s" THEN "https" ELSE "http") \o "://emby.lan:8096/Items/"
    \o itemId \o "/Images/" \o imageType
    \o "?maxHeight=360&maxWidth=640&quality=90&api_key=KEY"

CachePath(name) == img_dir \o "/" \o name
LastPath == CachePath(ExpectedName(lastCall.itemId, lastCall.imageType))
CacheOn == img_dir # ""
IsCall == nCalls' = nCalls + 1
Expired(f, q) == EndsWith(q, ".jpg")
                 /\ f[q].mtime < now - img_cache_days * 86400
InFlight(i) == tasks[i].pc # "done"

\* C1: with no cache directory, construction and every get_image_url call
\* leave directories and files unchanged and start no download, and each
\* call returns the canonical remote URL.
C1_CacheDisabled ==
    [][img_dir = "" =>
         /\ fs' = fs /\ dirs' = dirs
         /\ tasks' = <<>> /\ fetches' = 0
         /\ IsCall => lastCall'.ret =
                        ExpectedUrl(lastCall'.itemId, lastCall'.imageType)]_vars

C1_Witness ==
    /\ img_dir = "" /\ nCalls = 2
    /\ lastCall.ret = "https://emby.lan:8096/Items/42/Images/Primary?maxHeight=360&maxWidth=640&quality=90&api_key=KEY"
    /\ \E q \in DOMAIN fs : Expired(fs, q) /\ ~fs[q].locked

\* C2: downloads of the same URL always target the same filename, and the
\* cache directory never holds more than one file named for a given pair.
FilesOf(p) ==
    {q \in DOMAIN fs : /\ StartsWith(BaseName(q), p[1] \o "_" \o p[2] \o "_")
                       /\ EndsWith(q, ".jpg")}

C2_OneFilePerPair ==
    /\ \A i, j \in 1..Len(tasks) :
          tasks[i].url = tasks[j].url => tasks[i].filename = tasks[j].filename
    /\ \A p \in Pairs : Cardinality(FilesOf(p)) <= 1

C2_Witness ==
    /\ Len(tasks) = 2
    /\ tasks[1].url = tasks[2].url
    /\ tasks[1].pc = "done" /\ tasks[1].result
    /\ tasks[2].pc = "done" /\ tasks[2].result
    /\ Cardinality(FilesOf(<<"42", "Primary">>)) = 1

\* C3: with caching enabled a get_image_url call starts exactly one download
\* when the pair's file is missing and none when it exists; the call itself
\* issues no HTTP GET and disturbs no running download.
C3_SpawnIffMissing ==
    [][CacheOn /\ IsCall =>
         LET name == ExpectedName(lastCall'.itemId, lastCall'.imageType)
             path == CachePath(name)
         IN /\ path \notin DOMAIN fs =>
                 /\ Len(tasks') = Len(tasks) + 1
                 /\ tasks'[Len(tasks')].filename = name
                 /\ tasks'[Len(tasks')].pc = "get"
            /\ path \in DOMAIN fs => tasks' = tasks
            /\ SubSeq(tasks', 1, Len(tasks)) = tasks
            /\ fetches' = fetches]_vars

C3_Witness ==
    /\ CacheOn /\ nCalls = 2 /\ fetches = 1
    /\ lastCall.itemId = "42" /\ lastCall.imageType = "Primary"
    /\ Len(tasks) = 1 /\ tasks[1].filename = "42_Primary_7ab37ce5.jpg"

\* C4: with the cache under /config/www/emby_images every call returns
\* /local/emby_images/{filename}, on a hit and on a miss, and a call is
\* never held back by a download that is still running.
C4_NonBlocking ==
    /\ (lastCall # NoCall /\ img_dir = "/config/www/emby_images") =>
          lastCall.ret = "/local/emby_images/"
                         \o ExpectedName(lastCall.itemId, lastCall.imageType)
    /\ (pc = "ready" /\ nCalls < MaxCalls) =>
          \A p \in Pairs : ENABLED GetImageUrl(p[1], p[2])

C4_Witness ==
    /\ img_dir = "/config/www/emby_images"
    /\ lastCall.ret = "/local/emby_images/42_Primary_7ab37ce5.jpg"
    /\ LastPath \notin DOMAIN fs
    /\ Len(tasks) = 1 /\ tasks[1].filename = "42_Primary_7ab37ce5.jpg"
    /\ tasks[1].pc = "get"
    /\ nCalls < MaxCalls

\* C5: under fair scheduling every started download ends, and one that ends
\* in success leaves its file in the cache directory; a cached file stays,
\* and a call for a cached file starts no download.
C5_EventualAvailability ==
    /\ \A i \in 1..MaxCalls :
          (i <= Len(tasks) /\ tasks[i].pc = "get")
             ~> (/\ i <= Len(tasks)
                 /\ tasks[i].pc = "done"
                 /\ tasks[i].result => CachePath(tasks[i].filename) \in DOMAIN fs)
    /\ [][pc = "ready" =>
            /\ DOMAIN fs \subseteq DOMAIN fs'
            /\ (IsCall /\ CacheOn /\ CachePath(ExpectedName(lastCall'.itemId,
                                       lastCall'.imageType)) \in DOMAIN fs)
                 => tasks' = tasks]_vars

C5_Witness ==
    /\ CacheOn /\ nCalls = 2
    /\ Len(tasks) = 1 /\ tasks[1].pc = "done" /\ tasks[1].result
    /\ tasks[1].filename = ExpectedName(lastCall.itemId, lastCall.imageType)
    /\ LastPath \in DOMAIN fs /\ fs[LastPath].content = 1..BodyChunks

\* C6: a sweep in which no deletion fails removes exactly the '.jpg' files
\* whose mtime is below now - img_cache_days*86400, and leaves every other
\* file as it was.
C6_EvictionExact ==
    [][(pc = "new" /\ pc' = "ready" /\ CacheOn
        /\ \A q \in DOMAIN fs : ~fs[q].locked) =>
         /\ DOMAIN fs' \subseteq DOMAIN fs
         /\ \A q \in DOMAIN fs :
              /\ q \notin DOMAIN fs' <=> Expired(fs, q)
              /\ q \in DOMAIN fs' => fs'[q] = fs[q]]_vars

C6_Witness ==
    /\ pc = "ready" /\ CacheOn /\ nCalls = 0 /\ now = Now0
    /\ CachePath("notes.txt") \in DOMAIN fs
    /\ fs[CachePath("notes.txt")].mtime = Now0 - 40 * 86400
    /\ CachePath("42_Primary_7ab37ce5.jpg") \in DOMAIN fs
    /\ fs[CachePath("42_Primary_7ab37ce5.jpg")].mtime = Now0 - 30 * 86400

\* C7 as stated: construction with a cache directory creates it and leaves
\* no '.jpg' file older than the cutoff; the sweep precedes every call and
\* download and never runs again.
C7_Original ==
    [][/\ (pc = "new" /\ pc' = "ready" /\ CacheOn) =>
             /\ img_dir \in dirs'
             /\ \A q \in DOMAIN fs' : ~Expired(fs', q)
       /\ pc = "new" => nCalls' = 0 /\ tasks' = <<>>
       /\ pc = "ready" => pc' = "ready" /\ DOMAIN fs \subseteq DOMAIN fs']_vars

\* C7, amended: as C7, except that an expired '.jpg' file whose deletion
\* failed is still there after construction.
C7_StartupSweep ==
    [][/\ (pc = "new" /\ pc' = "ready" /\ CacheOn) =>
             /\ img_dir \in dirs'
             /\ \A q \in DOMAIN fs' : Expired(fs', q) => fs'[q].locked
       /\ pc = "new" => nCalls' = 0 /\ tasks' = <<>>
       /\ pc = "ready" => pc' = "ready" /\ DOMAIN fs \subseteq DOMAIN fs']_vars

C7_Witness ==
    /\ pc = "ready" /\ CacheOn /\ now > Now0
    /\ \E q \in DOMAIN fs : Expired(fs, q) /\ ~fs[q].locked

\* C8: a download that ended in failure has left no file under its target
\* name (a file there belongs to another download of the same name).
C8_FailedLeavesNoFile ==
    \A i \in 1..Len(tasks) :
        (tasks[i].pc = "done" /\ ~tasks[i].result
         /\ CachePath(tasks[i].filename) \in DOMAIN fs)
        => \E j \in 1..Len(tasks) :
              j # i /\ tasks[j].filename = tasks[i].filename /\ tasks[j].opened

\* C9: whenever a get_image_url call finds the pair's file present (a cache
\* hit), that file holds the whole body.
C9_NoPartialHit ==
    [][(CacheOn /\ IsCall) =>
         LET path == CachePath(ExpectedName(lastCall'.itemId,
                                            lastCall'.imageType))
         IN path \in DOMAIN fs => fs[path].content = 1..BodyChunks]_vars

\* C10: a get_image_url call made while downloads of the same filename are
\* running and none has ended starts one more download.
C10_SecondCallSpawns ==
    [][(CacheOn /\ IsCall) =>
         LET name == ExpectedName(lastCall'.itemId, lastCall'.imageType)
             same == {i \in 1..Len(tasks) : tasks[i].filename = name}
         IN (same # {} /\ \A i \in same : InFlight(i))
               => Len(tasks') = Len(tasks) + 1]_vars

C10_TwoInFlight ==
    \E i, j \in 1..Len(tasks) :
        i # j /\ tasks[i].filename = tasks[j].filename
        /\ InFlight(i) /\ InFlight(j)

IsMeta == nMeta' = nMeta + 1

\* C14: a get_view_categories call whose GET fails at network level returns
\* None without raising, records "emby.lan cannot be reached" and leaves
\* the stored snapshots as they were.
C14_NetworkFailure ==
    [][(IsMeta /\ lastMeta'.op = "get_view_categories"
        /\ lastMeta'.status = 0) =>
         /\ ~lastMeta'.raised
         /\ lastMeta'.ret = <<>>
         /\ _state' = "emby.lan cannot be reached"
         /\ data' = data]_vars

C14_Witness ==
    /\ lastMeta.op = "get_view_categories" /\ lastMeta.status = 0
    /\ lastMeta.ret = <<>> /\ ~lastMeta.raised
    /\ _state = "emby.lan cannot be reached"
    /\ "ViewCategories" \in DOMAIN data
    /\ data["ViewCategories"] = <<"3", "5">>

\* C15: a get_view_categories or get_data call answered with a non-200
\* status records the unreachable status, does not raise, and returns None.
C15_RemoteError ==
    [][(IsMeta /\ lastMeta'.status \notin {0, 200}) =>
         /\ _state' = "emby.lan cannot be reached"
         /\ ~lastMeta'.raised
         /\ lastMeta'.ret = <<>>]_vars

\* C16: a successful call made while the status says "cannot be reached"
\* sets it to "Online", and every failed call sets it to "cannot be reached".
C16_LatestWins ==
    [][IsMeta =>
         /\ (lastMeta'.status = 200 /\ _state = "emby.lan cannot be reached")
               => _state' = "Online"
         /\ lastMeta'.status # 200 => _state' = "emby.lan cannot be reached"]_vars

\* C17: every stored item snapshot has at most max_items elements; a
\* successful get_data stores and returns the first min(max_items, n)
\* elements of the n-element response in order, in place of the category's
\* previous snapshot, and changes no other entry.
C17_BoundedSnapshot ==
    /\ [](\A k \in DOMAIN data \ {"ViewCategories"} :
             Len(data[k]) <= max_items)
    /\ [][(IsMeta /\ lastMeta'.op = "get_data" /\ lastMeta'.status = 200) =>
            LET c == lastMeta'.arg
                r == lastMeta'.response
                n == IF max_items < Len(r) THEN max_items ELSE Len(r)
            IN /\ DOMAIN data' = DOMAIN data \cup {c}
               /\ Len(data'[c]) = n
               /\ \A i \in 1..n : data'[c][i] = r[i]
               /\ lastMeta'.ret = <<data'[c]>>
               /\ \A k \in DOMAIN data \ {c} : data'[k] = data[k]]_vars

C17_Witness ==
    /\ max_items = 1 /\ nMeta = 3
    /\ lastMeta.op = "get_data" /\ lastMeta.arg = "3"
    /\ lastMeta.response = <<"7", "42">>
    /\ lastMeta.ret = << <<"7">> >>
    /\ DOMAIN data = {"3", "5"}
    /\ data["3"] = <<"7">> /\ data["5"] = <<"42">>

\* the pairs a download was started for, read back from its URL
PairsOf(i) == {p \in AnyPairs : tasks[i].url = ExpectedUrl(p[1], p[2])}

IsTaskStep == tasks' # tasks /\ Len(tasks') = Len(tasks)

\* C11 as stated: downloads started for distinct pairs have distinct
\* filenames, and a download step writes nothing but files.
C11_Original ==
    /\ [](\A i, j \in 1..Len(tasks) :
             tasks[i].url # tasks[j].url
                => tasks[i].filename # tasks[j].filename)
    /\ [][IsTaskStep =>
            UNCHANGED <<config, meta, pc, dirs, nCalls, lastCall>>]_vars

\* C11, amended: downloads started for distinct pairs whose image types
\* contain no "_" have distinct filenames, and a download step writes
\* nothing but files.
C11_DistinctFiles ==
    /\ [](\A i, j \in 1..Len(tasks) :
             \A p \in PairsOf(i), q \in PairsOf(j) :
                (p # q /\ ~Contains(p[2], "_") /\ ~Contains(q[2], "_"))
                   => tasks[i].filename # tasks[j].filename)
    /\ [][IsTaskStep =>
            UNCHANGED <<config, meta, pc, dirs, nCalls, lastCall>>]_vars

C11_Witness ==
    /\ Len(tasks) = 2
    /\ PairsOf(1) = {<<"1_2", "Primary">>}
    /\ PairsOf(2) = {<<"42", "Primary">>}
    /\ tasks[1].pc = "write" /\ tasks[2].pc = "write"
    /\ DOMAIN fs = {"/config/www/emby_images/1_2_Primary_ab4c5fab.jpg",
                    "/config/www/emby_images/42_Primary_7ab37ce5.jpg"}

\* C12: a download that met a failure has ended with result False, no
\* download ends by an exception, and a download step leaves the value the
\* call returned as it was.
C12_ErrorsSwallowed ==
    /\ [](\A i \in 1..Len(tasks) :
             /\ tasks[i].pc \in {"get", "open", "write", "done"}
             /\ tasks[i].err # "" => tasks[i].pc = "done" /\ ~tasks[i].result)
    /\ [][IsTaskStep => lastCall' = lastCall]_vars

C12_Witness ==
    /\ Len(tasks) = 1 /\ tasks[1].pc = "done"
    /\ tasks[1].err = "write" /\ ~tasks[1].result
    /\ lastCall.ret = "/local/emby_images/42_Primary_7ab37ce5.jpg"

\* C13: a client with cache directory /config/www/emby_images returns
\* /local/emby_images/{filename}; one with /data/emby_images, which has no
\* /www/ segment, returns the canonical remote URL.
C13_PathTranslation ==
    lastCall # NoCall =>
       /\ img_dir = "/config/www/emby_images" =>
             lastCall.ret = "/local/emby_images/"
                   \o ExpectedName(lastCall.itemId, lastCall.imageType)
       /\ img_dir = "/data/emby_images" =>
             lastCall.ret = ExpectedUrl(lastCall.itemId, lastCall.imageType)

C13_Witness ==
    /\ img_dir = "/config/www/emby_images"
    /\ nCalls = 1 /\ tasks = <<>>
    /\ lastCall.ret = "/local/emby_images/42_Primary_7ab37ce5.jpg"
    /\ "/config/www/emby_images/42_Primary_7ab37ce5.jpg" \in DOMAIN fs

\* C18: construction with a cache directory completes, and its sweep leaves
\* every file that cannot be read or removed in place and removes every
\* other expired '.jpg' file, whatever else is in the directory.
C18_SweepTolerant ==
    [][(pc = "new" /\ CacheOn) =>
         /\ pc' = "ready"
         /\ \A q \in DOMAIN fs :
               /\ fs[q].locked => q \in DOMAIN fs' /\ fs'[q] = fs[q]
               /\ (Expired(fs, q) /\ ~fs[q].locked) => q \notin DOMAIN fs']_vars

C18_Witness ==
    /\ pc = "ready" /\ CacheOn
    /\ DOMAIN fs = {CachePath("42_Primary_7ab37ce5.jpg"),
                    CachePath("7_Primary_f8338f54.jpg"),
                    CachePath("notes.txt")}
    /\ Expired(fs, CachePath("42_Primary_7ab37ce5.jpg"))
    /\ fs[CachePath("42_Primary_7ab37ce5.jpg")].locked
    /\ ~Expired(fs, CachePath("7_Primary_f8338f54.jpg"))

\* C19: a call starts at most one download; a download has issued exactly
\* one GET once it is past its request and none before, and does nothing
\* once it has ended; under fair scheduling every download ends.
C19_SingleAttempt ==
    /\ [](/\ Len(tasks) <= nCalls
          /\ fetches = Cardinality({i \in 1..Len(tasks) : tasks[i].pc # "get"}))
    /\ [][/\ Len(tasks') <= Len(tasks) + 1
          /\ \A i \in 1..Len(tasks) :
                tasks[i].pc = "done" => tasks'[i] = tasks[i]]_vars
    /\ \A i \in 1..MaxCalls :
          (i <= Len(tasks)) ~> (i <= Len(tasks) /\ tasks[i].pc = "done")

C19_Witness ==
    /\ nCalls = 2 /\ Len(tasks) = 2 /\ fetches = 1
    /\ tasks[1].pc = "done" /\ tasks[1].err = "network"
    /\ tasks[2].pc = "get"

\* C20: with cache directory /data/emby_images, which has no /www/ segment,
\* a call on a miss starts a download and returns the remote URL, and the
\* download writes its file into that directory.
C20_MissBeforeMarker ==
    /\ [][(img_dir = "/data/emby_images" /\ IsCall) =>
            LET name == ExpectedName(lastCall'.itemId, lastCall'.imageType)
            IN /\ lastCall'.ret =
                     ExpectedUrl(lastCall'.itemId, lastCall'.imageType)
               /\ ("/data/emby_images/" \o name) \notin DOMAIN fs =>
                     /\ Len(tasks') = Len(tasks) + 1
                     /\ tasks'[Len(tasks')].filename = name]_vars
    /\ [](img_dir = "/data/emby_images" =>
             \A i \in 1..Len(tasks) :
                tasks[i].opened =>
                   ("/data/emby_images/" \o tasks[i].filename) \in DOMAIN fs)

C20_Witness ==
    /\ img_dir = "/data/emby_images"
    /\ Len(tasks) = 1 /\ tasks[1].pc = "done" /\ tasks[1].result
    /\ "/data/emby_images/7_Primary_f8338f54.jpg" \in DOMAIN fs
    /\ fs["/data/emby_images/7_Primary_f8338f54.jpg"].content = 1..BodyChunks
    /\ lastCall.ret = "http://emby.lan:8096/Items/7/Images/Primary?maxHeight=360&maxWidth=640&quality=90&api_key=KEY"

====
